---- MODULE Spec2Model ----
(***************************************************************************)
(* Model of the python-with-postgres guide: the HTTP service of main.py    *)
(* (one handler object over one shared psycopg2 connection, served by a    *)
(* single-threaded HTTPServer) and the one-shot script of guide.py, both   *)
(* over the single table my_table.                                         *)
(*                                                                         *)
(* The database and the driver are modelled by what the statements of the  *)
(* source do to them:                                                      *)
(*   - the connection is in autocommit mode, so a failed statement leaves  *)
(*     no aborted transaction behind;                                      *)
(*   - connection.cursor() raises InterfaceError when the connection is    *)
(*     closed (by close(), or marked broken by the driver after a failed   *)
(*     statement on a lost connection), and does no I/O otherwise;         *)
(*   - a statement on a lost connection raises OperationalError and marks  *)
(*     the connection broken;                                              *)
(*   - a statement naming my_table raises UndefinedTable when the table is *)
(*     absent, except the IF [NOT] EXISTS forms.                           *)
(***************************************************************************)
EXTENDS Integers, Sequences, FiniteSets, TLC

\* ---------------------------------------------------------------- bounds
MaxTime == 2        \* rows inserted over a whole behaviour (clock values)
MaxParams == 1      \* fields of a request's query string
MaxArgs == 1        \* command-line arguments after the script name

Keys == {"name", "id"}
Values == {"", "bob"}
Paths == {"/read", "/write", "/delete", "/bogus"}

SeqUpTo(S, n) == UNION {[1..k -> S] : k \in 0..n}

Fields == [k : Keys, v : Values]
Queries == SeqUpTo(Fields, MaxParams)
Requests == [path : Paths, query : Queries]

JSON == "application/json"

VARIABLES
    \* the database
    tableExists,    \* my_table exists
    rows,           \* its rows, in insertion order
    nextId,         \* the BIGSERIAL sequence owned by my_table.id
    now,            \* current_timestamp
    \* main.py
    pc,             \* position of the main.py process
    conn,           \* state of its psycopg2 connection
    listener,       \* state of the HTTPServer socket
    inflight,       \* handler invocations in progress
    last,           \* the request answered most recently and its response
    dropped,        \* the latest DROP TABLE of the service, if any
    written,        \* the names the service has inserted
    \* guide.py
    cpc,            \* position of the guide.py process
    cconn,          \* state of its psycopg2 connection
    argv,           \* sys.argv
    printed         \* what it has printed

dbvars == <<tableExists, rows, nextId, now>>
httpvars == <<pc, conn, listener, inflight, last, dropped, written>>
clivars == <<cpc, cconn, argv, printed>>
vars == <<tableExists, rows, nextId, now, pc, conn, listener, inflight, last,
          dropped, written, cpc, cconn, argv, printed>>

Range(f) == {f[i] : i \in DOMAIN f}

\* ------------------------------------------------------- query strings
NotBlank(f) == f.v # ""

\* urllib.parse.parse_qsl(query): fields in order, blank values dropped
parse_qsl(query) == SelectSeq(query, NotBlank)

\* dict(pairs).get(key, default): the last field of that key wins
dict_get(pairs, key, default) ==
    LET idx == {i \in DOMAIN pairs : pairs[i].k = key}
    IN  IF idx = {} THEN default
        ELSE pairs[CHOOSE i \in idx : \A j \in idx : j <= i].v

\* name = dict(parse_qsl(url.query)).get('name', 'john')
RequestName(req) == dict_get(parse_qsl(req.query), "name", "john")

\* ------------------------------------------------ the driver and the table
\* connection.cursor() raises InterfaceError on a closed connection
CursorRaises(c) == c \in {"broken", "closed"}

NoTable == "relation my_table does not exist"
ServerGone == "server closed the connection unexpectedly"
AlreadyClosed == "connection already closed"

DbState(c) ==
    [exists |-> tableExists, rows |-> rows, nextId |-> nextId, now |-> now,
     conn |-> c]

Ok(s, res) == [err |-> "", db |-> s, res |-> res]
Raise(s, e) == [err |-> e, db |-> s, res |-> <<>>]

\* variant: the WHERE clause is missing
SelectByNameAll(rs, name) == rs

SelectByName(rs, name) ==
    LET Match(r) == r.name = name IN SelectSeq(rs, Match)

\* cursor.execute(stmt, (name,)) in autocommit mode, and cursor.fetchall()
Execute(s, stmt, name) ==
    IF s.conn = "lost" THEN Raise([s EXCEPT !.conn = "broken"], ServerGone)
    ELSE CASE stmt = "CREATE" ->
                 IF s.exists THEN Ok(s, <<>>)
                 ELSE Ok([s EXCEPT !.exists = TRUE, !.rows = <<>>,
                                   !.nextId = 1], <<>>)
           [] stmt = "SELECT" ->
                 IF s.exists THEN Ok(s, SelectByName(s.rows, name))
                 ELSE Raise(s, NoTable)
           [] stmt = "INSERT" ->
                 IF s.exists
                 THEN Ok([s EXCEPT !.rows = Append(@, [id |-> s.nextId,
                                                       name |-> name,
                                                       date |-> s.now]),
                                   !.nextId = @ + 1,
                                   !.now = @ + 1], <<>>)
                 ELSE Raise(s, NoTable)
           [] stmt = "DROP" ->
                 Ok([s EXCEPT !.exists = FALSE, !.rows = <<>>, !.nextId = 1],
                    <<>>)

\* ------------------------------------------------------------- responses
NoResponse == [statuses |-> <<>>, ctypes |-> <<>>, body |-> <<>>]

\* send_response(status); send_header("Content-type", ...); end_headers()
Send(resp, status) ==
    [resp EXCEPT !.statuses = Append(@, status), !.ctypes = Append(@, JSON)]

\* self.wfile.write(...)
Write(resp, b) == [resp EXCEPT !.body = Append(@, b)]

Body(kind, text, rs) == [kind |-> kind, text |-> text, rows |-> rs]

\* json.dump(records, default=str): the timestamp becomes a string
JsonRow(r) == <<r.id, r.name, <<"str", r.date>>>>
JsonRows(rs) == [i \in DOMAIN rs |-> JsonRow(rs[i])]

Done(s, resp) == [err |-> "", db |-> s, resp |-> resp]
Thrown(s, resp, e) == [err |-> e, db |-> s, resp |-> resp]

\* ------------------------------------------------ PostgresApiServer.do_GET
\* variant: the handler ensures the table before it reads
ReadBranchEnsuring(name, s) ==
    LET c == Execute(s, "CREATE", name)
        x == Execute(c.db, "SELECT", name)
    IN  IF x.err # "" THEN Thrown(x.db, NoResponse, x.err)
        ELSE Done(x.db, Write(Send(NoResponse, 200),
                              Body("rows", "", JsonRows(x.res))))

ReadBranch(name, s) ==
    LET x == Execute(s, "SELECT", name)
    IN  IF x.err # "" THEN Thrown(x.db, NoResponse, x.err)
        ELSE Done(x.db, Write(Send(NoResponse, 200),
                              Body("rows", "", JsonRows(x.res))))

\* variant: the INSERT is not made durable before the confirmation
WriteBranchUnsaved(name, s) ==
    LET x == Execute(s, "INSERT", name)
    IN  IF x.err # "" THEN Thrown(x.db, NoResponse, x.err)
        ELSE Done(s, Write(Send(NoResponse, 200),
                           Body("added", name, <<>>)))

\* variant: the status line is sent before the statement is executed
WriteBranchEarlyStatus(name, s) ==
    LET x == Execute(s, "INSERT", name)
        sent == Send(NoResponse, 200)
    IN  IF x.err # "" THEN Thrown(x.db, sent, x.err)
        ELSE Done(x.db, Write(sent, Body("added", name, <<>>)))

WriteBranch(name, s) ==
    LET x == Execute(s, "INSERT", name)
    IN  IF x.err # "" THEN Thrown(x.db, NoResponse, x.err)
        ELSE Done(x.db, Write(Send(NoResponse, 200),
                              Body("added", name, <<>>)))

\* variant: DELETE FROM my_table WHERE name = %s
DeleteBranchRows(name, s) ==
    LET Other(r) == r.name # name
    IN  IF s.conn = "lost"
        THEN Thrown([s EXCEPT !.conn = "broken"], NoResponse, ServerGone)
        ELSE IF ~s.exists THEN Thrown(s, NoResponse, NoTable)
        ELSE Done([s EXCEPT !.rows = SelectSeq(@, Other)],
                  Write(Send(NoResponse, 200), Body("deleted", "", <<>>)))

DeleteBranch(name, s) ==
    LET x == Execute(s, "DROP", name)
    IN  IF x.err # "" THEN Thrown(x.db, NoResponse, x.err)
        ELSE Done(x.db, Write(Send(NoResponse, 200),
                              Body("deleted", "", <<>>)))

NotFoundBranch(path, s) ==
    Done(s, Write(Send(NoResponse, 404), Body("invalid path", path, <<>>)))

\* the try block
Try(req, s) ==
    IF CursorRaises(s.conn) THEN Thrown(s, NoResponse, AlreadyClosed)
    ELSE LET name == RequestName(req)
         IN  CASE req.path = "/read" -> ReadBranch(name, s)
               [] req.path = "/write" -> WriteBranch(name, s)
               [] req.path = "/delete" -> DeleteBranch(name, s)
               [] OTHER -> NotFoundBranch(req.path, s)

\* variant: no except clause, the exception leaves the handler
ExceptMissing(t) == t

\* the except clause
Except(t) ==
    IF t.err = "" THEN t
    ELSE [t EXCEPT !.resp = Write(Send(t.resp, 500), Body("error", t.err, <<>>))]

Handle(req, s) == Except(Try(req, s))

\* the value X of a query string that is exactly name=X
NameArg(req) ==
    IF Len(req.query) = 1 /\ req.query[1].k = "name"
    THEN <<req.query[1].v>> ELSE <<>>

NoLast == [path |-> "-", arg |-> <<>>, resp |-> NoResponse]
NoDrop == [at |-> -1, reinit |-> FALSE]

SetDb(s) ==
    /\ tableExists' = s.exists
    /\ rows' = s.rows
    /\ nextId' = s.nextId
    /\ now' = s.now

\* ---------------------------------------------------------------- main.py
\* psycopg2.connect(...); connection.autocommit = True
connect ==
    /\ pc = "boot"
    /\ conn' = "open"
    /\ pc' = "connected"
    /\ UNCHANGED <<dbvars, listener, inflight, last, dropped, written, clivars>>

\* PostgresApiServer(connection), then HTTPServer((hostName, serverPort), ...)
\* binds the listener; an exception here ends the process
init ==
    /\ pc = "connected"
    /\ LET x == Execute(DbState(conn), "CREATE", "")
       IN  /\ SetDb(x.db)
           /\ conn' = x.db.conn
           /\ IF x.err = ""
              THEN /\ pc' = "serving"
                   /\ listener' = "open"
                   /\ dropped' = IF dropped = NoDrop THEN dropped
                                 ELSE [dropped EXCEPT !.reinit = TRUE]
              ELSE /\ pc' = "aborted"
                   /\ UNCHANGED <<listener, dropped>>
    /\ UNCHANGED <<inflight, last, written, clivars>>

\* variant: a threading server takes a request while a handler is running
acceptThreaded(req) ==
    /\ pc = "serving"
    /\ Len(inflight) < 2
    /\ req.path = "/write" => now < MaxTime
    /\ inflight' = Append(inflight, [step |-> "accepted", req |-> req])
    /\ UNCHANGED <<dbvars, pc, conn, listener, last, dropped, written, clivars>>

\* serve_forever(): one request is taken when no handler is running
accept(req) ==
    /\ pc = "serving"
    /\ inflight = <<>>
    /\ req.path = "/write" => now < MaxTime
    /\ inflight' = Append(inflight, [step |-> "accepted", req |-> req])
    /\ UNCHANGED <<dbvars, pc, conn, listener, last, dropped, written, clivars>>

do_GET(i) ==
    /\ pc = "serving"
    /\ i \in DOMAIN inflight
    /\ inflight[i].step = "accepted"
    /\ LET req == inflight[i].req
           out == Handle(req, DbState(conn))
       IN  /\ SetDb(out.db)
           /\ conn' = out.db.conn
           /\ inflight' = [inflight EXCEPT ![i].step = "responded"]
           /\ last' = [path |-> req.path, arg |-> NameArg(req),
                       resp |-> out.resp]
           /\ dropped' = IF req.path = "/delete" /\ out.err = ""
                         THEN [at |-> now, reinit |-> FALSE]
                         ELSE dropped
           /\ written' = IF req.path = "/write" /\ out.err = ""
                         THEN written \cup {RequestName(req)}
                         ELSE written
    /\ UNCHANGED <<pc, listener, clivars>>

\* the handler returns and the request's socket is shut down
finish(i) ==
    /\ pc = "serving"
    /\ i \in DOMAIN inflight
    /\ inflight[i].step = "responded"
    /\ inflight' = SubSeq(inflight, 1, i - 1) \o
                   SubSeq(inflight, i + 1, Len(inflight))
    /\ UNCHANGED <<dbvars, pc, conn, listener, last, dropped, written, clivars>>

\* KeyboardInterrupt leaves serve_forever(); a running handler is abandoned
KeyboardInterrupt ==
    /\ pc = "serving"
    /\ pc' = "interrupted"
    /\ inflight' = <<>>
    /\ UNCHANGED <<dbvars, conn, listener, last, dropped, written, clivars>>

\* variant: the connection is closed before the listener
server_close_swapped ==
    /\ pc = "interrupted"
    /\ conn' = "closed"
    /\ pc' = "closing"
    /\ UNCHANGED <<dbvars, listener, inflight, last, dropped, written, clivars>>

\* webServer.server_close()
server_close ==
    /\ pc = "interrupted"
    /\ listener' = "closed"
    /\ pc' = "closing"
    /\ UNCHANGED <<dbvars, conn, inflight, last, dropped, written, clivars>>

\* connection.close(); print("Server stopped.")
connection_close ==
    /\ pc = "closing"
    /\ conn' = "closed"
    /\ pc' = "stopped"
    /\ UNCHANGED <<dbvars, listener, inflight, last, dropped, written, clivars>>

\* the service is started again; the database outlives the process
restart ==
    /\ pc \in {"stopped", "aborted"}
    /\ pc' = "boot"
    /\ conn' = "none"
    /\ listener' = "none"
    /\ UNCHANGED <<dbvars, inflight, last, dropped, written, clivars>>

\* the server end of the connection goes away (restart, network)
ConnectionLost ==
    /\ conn = "open"
    /\ conn' = "lost"
    /\ UNCHANGED <<dbvars, pc, listener, inflight, last, dropped, written, clivars>>

Init ==
    /\ tableExists = FALSE
    /\ rows = <<>>
    /\ nextId = 1
    /\ now = 0
    /\ pc = "boot"
    /\ conn = "none"
    /\ listener = "none"
    /\ inflight = <<>>
    /\ last = NoLast
    /\ dropped = NoDrop
    /\ written = {}
    /\ cpc = "off"
    /\ cconn = "none"
    /\ argv = <<"guide.py">>
    /\ printed = <<>>

Next ==
    \/ connect
    \/ init
    \/ \E req \in Requests : accept(req)
    \/ \E i \in DOMAIN inflight : do_GET(i)
    \/ \E i \in DOMAIN inflight : finish(i)
    \/ KeyboardInterrupt
    \/ server_close
    \/ connection_close
    \/ restart
    \/ ConnectionLost

Spec == Init /\ [][Next]_vars

\* the statements after serve_forever() are run once it has returned
FairSpec ==
    /\ Spec
    /\ WF_vars(server_close)
    /\ WF_vars(connection_close)

\* --------------------------------------------------------------- guide.py
\* yourName = sys.argv[1] if len(sys.argv) > 1 else 'john'
yourName(av) == IF Len(av) > 1 THEN av[2] ELSE "john"

CliDb(x) ==
    /\ SetDb(x.db)
    /\ cconn' = x.db.conn

\* an exception is not caught: the traceback ends the process
CliStep(x, next) == cpc' = IF x.err = "" THEN next ELSE "failed"

\* psycopg2.connect(...); connection.autocommit = True; connection.cursor()
cli_connect ==
    /\ cpc = "connect"
    /\ cconn' = "open"
    /\ cpc' = "probe"
    /\ UNCHANGED <<dbvars, httpvars, argv, printed>>

\* SELECT %s as connected; print(cursor.fetchone())
cli_probe ==
    /\ cpc = "probe"
    /\ LET x == IF cconn = "lost"
                THEN Raise([DbState(cconn) EXCEPT !.conn = "broken"], ServerGone)
                ELSE Ok(DbState(cconn), <<>>)
       IN  /\ CliDb(x)
           /\ CliStep(x, "create")
           /\ printed' = IF x.err = ""
                         THEN Append(printed, <<"Connection to postgres successful!">>)
                         ELSE printed
    /\ UNCHANGED <<httpvars, argv>>

\* cursor.execute(createTableQuery)
cli_create ==
    /\ cpc = "create"
    /\ LET x == Execute(DbState(cconn), "CREATE", "")
       IN  CliDb(x) /\ CliStep(x, "insert")
    /\ UNCHANGED <<httpvars, argv, printed>>

\* cursor.execute(addDataQuery, (yourName,))
cli_insert ==
    /\ cpc = "insert"
    /\ LET x == Execute(DbState(cconn), "INSERT", yourName(argv))
       IN  CliDb(x) /\ CliStep(x, "select")
    /\ UNCHANGED <<httpvars, argv, printed>>

\* cursor.execute(readDataQuery, (yourName,)); print each fetched record
cli_select ==
    /\ cpc = "select"
    /\ LET x == Execute(DbState(cconn), "SELECT", yourName(argv))
       IN  /\ CliDb(x)
           /\ CliStep(x, "drop")
           /\ printed' = printed \o [i \in DOMAIN x.res |->
                             <<x.res[i].id, x.res[i].name, x.res[i].date>>]
    /\ UNCHANGED <<httpvars, argv>>

\* variant: the table is left in place
cli_drop_skipped ==
    /\ cpc = "drop"
    /\ cpc' = "close"
    /\ UNCHANGED <<dbvars, httpvars, cconn, argv, printed>>

\* cursor.execute('DROP TABLE IF EXISTS my_table;')
cli_drop ==
    /\ cpc = "drop"
    /\ LET x == Execute(DbState(cconn), "DROP", "")
       IN  CliDb(x) /\ CliStep(x, "close")
    /\ UNCHANGED <<httpvars, argv, printed>>

\* cursor.close(); connection.close()
cli_close ==
    /\ cpc = "close"
    /\ cconn' = "closed"
    /\ cpc' = "done"
    /\ UNCHANGED <<dbvars, httpvars, argv, printed>>

\* the script is run again, with any arguments
cli_rerun ==
    /\ cpc \in {"done", "failed"}
    /\ now < MaxTime
    /\ \E av \in SeqUpTo(Values, MaxArgs) :
          argv' = <<"guide.py">> \o av
    /\ cpc' = "connect"
    /\ cconn' = "none"
    /\ printed' = <<>>
    /\ UNCHANGED <<dbvars, httpvars>>

\* the server end of the script's connection goes away
CliConnectionLost ==
    /\ cconn = "open"
    /\ cconn' = "lost"
    /\ UNCHANGED <<dbvars, httpvars, cpc, argv, printed>>

\* the table as an earlier run of the service may have left it
LeftOver ==
    {[exists |-> FALSE, rows |-> <<>>, nextId |-> 1, now |-> 0],
     [exists |-> TRUE, rows |-> <<>>, nextId |-> 1, now |-> 0]} \cup
    {[exists |-> TRUE, rows |-> <<[id |-> 1, name |-> n, date |-> 0]>>,
      nextId |-> 2, now |-> 1] : n \in {"john", "bob"}}

CliInit ==
    /\ \E d \in LeftOver :
          /\ tableExists = d.exists
          /\ rows = d.rows
          /\ nextId = d.nextId
          /\ now = d.now
    /\ pc = "off"
    /\ conn = "none"
    /\ listener = "none"
    /\ inflight = <<>>
    /\ last = NoLast
    /\ dropped = NoDrop
    /\ written = {}
    /\ cpc = "connect"
    /\ cconn = "none"
    /\ argv \in {<<"guide.py">> \o av : av \in SeqUpTo(Values, MaxArgs)}
    /\ printed = <<>>

CliNext ==
    \/ cli_connect
    \/ cli_probe
    \/ cli_create
    \/ cli_insert
    \/ cli_select
    \/ cli_drop
    \/ cli_close
    \/ cli_rerun
    \/ CliConnectionLost

CliSpec == CliInit /\ [][CliNext]_vars

\* ------------------------------------------------------------ properties
\* the step in which handler invocation i runs do_GET
HandledAt(i) ==
    /\ i \in DOMAIN inflight
    /\ inflight[i].step = "accepted"
    /\ i \in DOMAIN inflight'
    /\ inflight'[i].step = "responded"

Status(l) == l.resp.statuses
RowsOf(l) == Range(l.resp.body[1].rows)
Routes == {"/read", "/write", "/delete"}

\* a /read?name=X handled on the live connection right after the 200 of a
\* /write?name=X answers 200 with a row named X
WriteThenRead(X) ==
    \A i \in DOMAIN inflight :
        ( /\ HandledAt(i)
          /\ inflight[i].req.path = "/read"
          /\ NameArg(inflight[i].req) = <<X>>
          /\ last.path = "/write"
          /\ last.arg = <<X>>
          /\ Status(last) = <<200>>
          /\ conn = "open" )
        => /\ Status(last') = <<200>>
           /\ \E r \in RowsOf(last') : r[2] = X

\* C1 as stated: for every name X, the empty name included, a /write?name=X
\* answered 200 and followed directly by /read?name=X gives 200 and a row
\* whose name is X
C1_AsStated == [][\A X \in Values : WriteThenRead(X)]_vars

\* C1 amended: for every non-empty name X, a /write?name=X answered 200 and
\* followed directly by /read?name=X gives 200 and a row whose name is X
C1_WriteThenRead == [][\A X \in Values \ {""} : WriteThenRead(X)]_vars

C1_Witness ==
    /\ last.path = "/read"
    /\ last.arg = <<"bob">>
    /\ Status(last) = <<200>>
    /\ \E r \in RowsOf(last) : r[2] = "bob"
    /\ "bob" \in written

\* C2 as stated: in every state of the service a /read of a name that was
\* never written answers 200 with an empty collection
C2_AsStated ==
    [][\A i \in DOMAIN inflight :
          ( /\ HandledAt(i)
            /\ inflight[i].req.path = "/read"
            /\ RequestName(inflight[i].req) \notin written )
          => /\ Status(last') = <<200>>
             /\ last'.resp.body[1].rows = <<>>]_vars

\* C2 amended: while the table exists and the connection is live, a /read of
\* a name that was never written answers 200 with an empty collection; when
\* the table is absent it answers 500
C2_ReadUnwritten ==
    [][\A i \in DOMAIN inflight :
          ( /\ HandledAt(i)
            /\ inflight[i].req.path = "/read"
            /\ RequestName(inflight[i].req) \notin written
            /\ conn = "open" )
          => IF tableExists
             THEN /\ Status(last') = <<200>>
                  /\ last'.resp.body[1].kind = "rows"
                  /\ last'.resp.body[1].rows = <<>>
             ELSE /\ Status(last') = <<500>>
                  /\ last'.resp.body[1].text = NoTable]_vars

C2_Witness ==
    /\ last.path = "/read"
    /\ last.arg = <<"bob">>
    /\ written = {"john"}
    /\ Len(rows) > 0
    /\ Status(last) = <<200>>
    /\ last.resp.body[1].rows = <<>>

\* C3: a request for a path other than /read, /write, /delete is answered
\* 404 with the path in the body, whatever the state of the table and of the
\* connection
C3_UnknownPath404 ==
    [][\A i \in DOMAIN inflight :
          ( /\ HandledAt(i)
            /\ inflight[i].req.path \notin Routes )
          => /\ Status(last') = <<404>>
             /\ last'.resp.body[1].text = inflight[i].req.path]_vars

C5_DeleteDropsTable ==
    [][\A i \in DOMAIN inflight :
          ( /\ HandledAt(i)
            /\ inflight[i].req.path = "/delete"
            /\ conn = "open" )
          => /\ Status(last') = <<200>>
             /\ last'.resp.body[1].kind = "deleted"
             /\ ~tableExists'
             /\ rows' = <<>>]_vars

C5_Witness ==
    /\ last.path = "/delete"
    /\ last.arg = <<"bob">>
    /\ Status(last) = <<200>>
    /\ "john" \in written
    /\ ~tableExists
    /\ pc = "serving"

\* C6: after a /delete, a /read is answered with an error unless the table
\* initializer has run since the delete, and it never returns a row written
\* before the delete
C6_ReadAfterDelete ==
    [][\A i \in DOMAIN inflight :
          ( /\ HandledAt(i)
            /\ inflight[i].req.path = "/read"
            /\ dropped # NoDrop )
          => \/ Status(last') = <<500>>
             \/ /\ dropped.reinit
                /\ Status(last') = <<200>>
                /\ \A r \in RowsOf(last') : r[3][2] >= dropped.at]_vars

C6_Witness ==
    /\ last.path = "/read"
    /\ dropped # NoDrop
    /\ dropped.reinit
    /\ dropped.at > 0
    /\ Status(last) = <<200>>
    /\ last.resp.body[1].rows # <<>>

\* the order of the script's statements
CliOrder ==
    {<<"connect", "probe">>, <<"probe", "create">>, <<"create", "insert">>,
     <<"insert", "select">>, <<"select", "drop">>, <<"drop", "close">>,
     <<"close", "done">>}

PrintedRow(n) == \E k \in DOMAIN printed : Len(printed[k]) = 3 /\ printed[k][2] = n

\* C7: a run of the script with name N steps through ensure table, insert,
\* select and print, drop, close in this order; a row named N has been
\* printed when the table is dropped, and a run that reaches its end leaves
\* the table absent and the connection closed
C7_CliRun ==
    /\ [](cpc \in {"close", "done"} =>
            ~tableExists /\ PrintedRow(yourName(argv)))
    /\ [](cpc = "done" => cconn = "closed")
    /\ [](cpc = "drop" => PrintedRow(yourName(argv)))
    /\ [](cpc = "select" => \E k \in DOMAIN rows : rows[k].name = yourName(argv))
    /\ [](cpc \in {"insert", "select"} => tableExists)
    /\ [][cpc' # cpc =>
            \/ <<cpc, cpc'>> \in CliOrder
            \/ cpc' = "failed"
            \/ cpc \in {"done", "failed"} /\ cpc' = "connect"]_vars
    /\ [][tableExists /\ ~tableExists' => cpc = "drop"]_vars

C7_Witness ==
    /\ cpc = "done"
    /\ argv = <<"guide.py", "bob">>
    /\ PrintedRow("bob")
    /\ ~tableExists

\* C8: at most one handler invocation is in progress at any moment
C8_OneAtATime == Len(inflight) <= 1

C8_Witness ==
    /\ Len(inflight) = 1
    /\ inflight[1].step = "responded"
    /\ Status(last) = <<200>>

\* C9: an interrupted process reaches the stopped state; on the way the
\* listener is closed first and the connection second; no handler runs once
\* the listener is closed, the connection is never closed by the process
\* while the listener is open, and the stopped process has both closed
C9_Shutdown ==
    /\ [](conn = "closed" => listener = "closed")
    /\ [](listener = "closed" => inflight = <<>>)
    /\ [](pc = "stopped" => listener = "closed" /\ conn = "closed")
    /\ [](pc \in {"interrupted", "closing"} => inflight = <<>>)
    /\ [][pc = "interrupted" /\ pc' # pc =>
            listener' = "closed" /\ conn' = conn /\ pc' = "closing"]_vars
    /\ [][pc = "closing" /\ pc' # pc =>
            conn' = "closed" /\ listener' = "closed" /\ pc' = "stopped"]_vars
    /\ [][listener = "closed" /\ pc' # "boot" => last' = last /\ dbvars' = dbvars]_vars
    /\ (pc = "interrupted" ~> pc = "stopped")

C9_Witness ==
    /\ pc = "stopped"
    /\ listener = "closed"
    /\ conn = "closed"
    /\ Status(last) = <<200>>

\* C10: every answered request got exactly one status line, with Content-Type
\* application/json, and one body; the body reports an error exactly when
\* the status is 500, so a failed statement is never answered 200 then 500
C10_OneStatus ==
    last # NoLast =>
        /\ Len(Status(last)) = 1
        /\ Status(last)[1] \in {200, 404, 500}
        /\ last.resp.ctypes = <<JSON>>
        /\ Len(last.resp.body) = 1
        /\ last.resp.body[1].kind = "error" <=> Status(last) = <<500>>

C10_Witness ==
    /\ last.path = "/read"
    /\ Status(last) = <<500>>
    /\ last.resp.ctypes = <<JSON>>
    /\ last.resp.body[1].text = NoTable

====
